---- MODULE Spec2Model ----
(***************************************************************************)
(* Model of src/app.py: the Flask handler telegram_webhook and its two     *)
(* outbound clients, add_checkitem_to_trello and send_telegram_message.    *)
(* One request is handled at a time; the locals of the handler and the     *)
(* log of outbound calls are reset when the next request arrives, the      *)
(* Trello checklist (the remote service's state) is not.                   *)
(*                                                                         *)
(* Python strings are sequences of one-character strings.  JSON values     *)
(* are records tagged by "type".  Message objects are Telegram Message     *)
(* objects: "chat" with an "id" is always present, "text" is optional.     *)
(***************************************************************************)
EXTENDS Integers, Sequences, FiniteSets, TLC

\* ---------------------------------------------------------------- bounds
MaxPad == 1          \* longest run of whitespace put around a text
MaxRequests == 2     \* number of requests delivered in one behaviour

\* ------------------------------------------------------- values and texts
PyNone == [type |-> "null"]            \* Python None and JSON null
Absent == [type |-> "absent"]          \* a key that is not in a dict
JArray == [type |-> "array"]           \* a non-empty JSON array
NotJson == [type |-> "notjson"]        \* a response body that is not JSON
Str(s) == [type |-> "string", chars |-> s]

Whitespace == {" ", "\n"}
StartToken == <<"/", "s", "t", "a", "r", "t">>

RECURSIVE Pad(_)
Pad(n) == IF n = 0 THEN <<>>
          ELSE <<IF n % 2 = 1 THEN " " ELSE "\n">> \o Pad(n - 1)

Cores == { <<>>,
           StartToken,
           StartToken \o <<"x">>,
           <<"/", "s">>,
           <<"a", " ", "b">> }

Texts == { Pad(l) \o c \o Pad(r) : l \in 0..MaxPad, r \in 0..MaxPad, c \in Cores }

\* str.strip(): remove leading and trailing whitespace
RECURSIVE lstrip(_)
lstrip(s) == IF s # <<>> /\ Head(s) \in Whitespace THEN lstrip(Tail(s)) ELSE s

RECURSIVE rstrip(_)
rstrip(s) == IF s # <<>> /\ s[Len(s)] \in Whitespace
             THEN rstrip(SubSeq(s, 1, Len(s) - 1)) ELSE s

\* the text used as it arrived
strip_none(s) == s

strip(s) == rstrip(lstrip(s))

\* str.startswith(prefix)
startswith(s, p) == Len(s) >= Len(p) /\ SubSeq(s, 1, Len(p)) = p

\* Python truthiness of the values the handler tests with "not"
Truthy(v) ==
    CASE v.type = "null" -> FALSE
      [] v.type = "absent" -> FALSE
      [] v.type = "string" -> v.chars # <<>>
      [] v.type = "array" -> TRUE
      [] v.type = "update" -> v.message # Absent \/ v.edited_message # Absent \/ v.other
      [] v.type = "message" -> TRUE
      [] OTHER -> TRUE

\* dict.get(key): None when the key is missing
Get(v) == IF v = Absent THEN PyNone ELSE v

\* a or b
Or(a, b) == IF Truthy(a) THEN a ELSE b

\* str() as applied by an f-string
PyStr(v) == IF v = PyNone THEN <<"N", "o", "n", "e">> ELSE v.chars

\* ------------------------------------------------------------- the inputs
TextFields == {Absent} \cup {Str(t) : t \in Texts}
Messages == [type : {"message"}, chat : [id : {42}], text : TextFields]
EditedMessages == [type : {"message"}, chat : [id : {7}],
                   text : {Absent, Str(<<"a", " ", "b">>), Str(StartToken)}]
\* "other" tells whether the update has any field besides the two message
\* fields (update_id, callback_query, ...)
Update(m, e, o) == [type |-> "update", message |-> m, edited_message |-> e, other |-> o]
Edited == [type |-> "message", chat |-> [id |-> 7], text |-> Str(<<"a", " ", "b">>)]
Updates ==
    { Update(m, e, o) : m \in {Absent, PyNone}, e \in {Absent} \cup EditedMessages,
                        o \in BOOLEAN }
    \cup { Update(m, Absent, TRUE) : m \in Messages }
    \cup { Update(m, Edited, TRUE) : m \in {x \in Messages : x.text \in {Absent, Str(StartToken)}} }
Bodies == {Absent, NotJson, PyNone, JArray} \cup Updates
Methods == {"GET", "POST"}

\* request.get_json(force=True, silent=True)
get_json(raw) == IF raw \in {Absent, NotJson} THEN PyNone ELSE raw

\* outcomes of one outbound HTTP request
Outcomes == {"ok", "http_error", "network_error"}
Normalized == <<"N">>
\* bodies the board service may send with a success status
TrelloBodies(task_text) ==
    {NotJson, JArray} \cup
    [type : {"item"}, name : {Absent, PyNone, Str(task_text), Str(Normalized)}]

\* ---------------------------------------------------- the fixed messages
PlainTextOnly == [lit |-> "Please send plain text tasks only for now.", arg |-> <<>>]
Greeting == [lit |-> "Hey! Send me any message and I'll add it as a checklist item in Trello.",
             arg |-> <<>>]
AddedTo(name) == [lit |-> "Added to Trello checklist: ", arg |-> name]
Oops == [lit |-> "Oops, I couldn't add that to Trello. Check configuration/logs.", arg |-> <<>>]

\* webhook responses
Live == [status |-> 200, ok |-> "text"]
NoPayload == [status |-> 400, ok |-> "false"]
OkTrue == [status |-> 200, ok |-> "true"]
ServerError == [status |-> 500, ok |-> "none"]
NoResponse == [status |-> 0, ok |-> "none"]

VARIABLES pc, method, body, chat_id, task_text, trello_response, item_name,
          calls, response, checklist, nRequests, nTask, nOther, boardTotal

vars == <<pc, method, body, chat_id, task_text, trello_response, item_name,
          calls, response, checklist, nRequests, nTask, nOther, boardTotal>>

locals == <<chat_id, task_text, trello_response, item_name>>
ghost == <<nTask, nOther>>

\* the message the handler works on (line 75)
MessageOf(update) == Or(Get(update.message), Get(update.edited_message))

BoardCall(text, outcome) == [svc |-> "board", chat_id |-> 0,
                             text |-> [lit |-> "", arg |-> text], outcome |-> outcome]
ChatCall(chat, text, outcome) == [svc |-> "chat", chat_id |-> chat,
                                  text |-> text, outcome |-> outcome]

\* an update that carries a task: a text that is not blank and not a command
IsTaskText(m, b) ==
    /\ m = "POST"
    /\ b \in Updates
    /\ MessageOf(b) # PyNone
    /\ MessageOf(b).text # Absent
    /\ strip(MessageOf(b).text.chars) # <<>>
    /\ ~startswith(strip(MessageOf(b).text.chars), StartToken)

Init ==
    /\ pc = "idle"
    /\ method = "GET"
    /\ body = Absent
    /\ chat_id = 0
    /\ task_text = <<>>
    /\ trello_response = PyNone
    /\ item_name = PyNone
    /\ calls = <<>>
    /\ response = NoResponse
    /\ checklist = <<>>
    /\ nRequests = 0
    /\ nTask = 0
    /\ nOther = 0
    /\ boardTotal = 0

\* lines 64-98: a request arrives and runs up to its first outbound call
\* or to its response
telegram_webhook ==
    /\ pc \in {"idle", "done"}
    /\ nRequests < MaxRequests
    /\ \E m \in Methods : \E b \in (IF m = "GET" THEN {Absent} ELSE Bodies) :
        LET update == get_json(b)
            message == MessageOf(update)
            text == Get(message.text)
        IN
        /\ method' = m
        /\ body' = b
        /\ nRequests' = nRequests + 1
        /\ nTask' = IF IsTaskText(m, b) THEN nTask + 1 ELSE nTask
        /\ nOther' = IF IsTaskText(m, b) THEN nOther ELSE nOther + 1
        /\ calls' = <<>>
        /\ trello_response' = PyNone
        /\ item_name' = PyNone
        /\ UNCHANGED <<checklist, boardTotal>>
        /\ IF m = "GET"
           THEN /\ response' = Live
                /\ pc' = "done"
                /\ chat_id' = 0
                /\ task_text' = <<>>
           ELSE IF ~Truthy(update)
           THEN /\ response' = NoPayload
                /\ pc' = "done"
                /\ chat_id' = 0
                /\ task_text' = <<>>
           ELSE IF update.type # "update"
           THEN \* update.get on a list: AttributeError, unhandled
                /\ response' = ServerError
                /\ pc' = "done"
                /\ chat_id' = 0
                /\ task_text' = <<>>
           ELSE IF ~Truthy(message)
           THEN /\ response' = OkTrue
                /\ pc' = "done"
                /\ chat_id' = 0
                /\ task_text' = <<>>
           ELSE IF ~Truthy(text)
           THEN /\ response' = NoResponse
                /\ pc' = "l84"
                /\ chat_id' = message.chat.id
                /\ task_text' = <<>>
           ELSE IF startswith(strip(text.chars), StartToken)
           THEN /\ response' = NoResponse
                /\ pc' = "l91"
                /\ chat_id' = message.chat.id
                /\ task_text' = <<>>
           ELSE /\ response' = NoResponse
                /\ pc' = "l101"
                /\ chat_id' = message.chat.id
                /\ task_text' = strip(text.chars)

\* lines 48-59: the HTTP request is made; only requests.HTTPError is caught
send_raises(outcome) == outcome = "network_error"

\* line 84
SendPlainTextOnly ==
    /\ pc = "l84"
    /\ \E o \in Outcomes :
        /\ calls' = Append(calls, ChatCall(chat_id, PlainTextOnly, o))
        /\ response' = IF send_raises(o) THEN ServerError ELSE OkTrue
    /\ pc' = "done"
    /\ UNCHANGED <<method, body, locals, checklist, nRequests, ghost, boardTotal>>

\* lines 91-95
SendGreeting ==
    /\ pc = "l91"
    /\ \E o \in Outcomes :
        /\ calls' = Append(calls, ChatCall(chat_id, Greeting, o))
        /\ response' = IF send_raises(o) THEN ServerError ELSE OkTrue
    /\ pc' = "done"
    /\ UNCHANGED <<method, body, locals, checklist, nRequests, ghost, boardTotal>>

\* the call skipped for a text the checklist already holds
add_checkitem_dedup ==
    /\ pc = "l101"
    /\ IF \E i \in 1..Len(checklist) : checklist[i] = task_text
       THEN /\ pc' = "l102"
            /\ trello_response' = [type |-> "item", name |-> Str(task_text)]
            /\ UNCHANGED <<calls, checklist, boardTotal>>
       ELSE /\ boardTotal' = boardTotal + 1
            /\ \/ \E o \in {"http_error", "network_error"} :
                    /\ calls' = Append(calls, BoardCall(task_text, o))
                    /\ pc' = "l106"
                    /\ UNCHANGED <<trello_response, checklist>>
               \/ \E b \in TrelloBodies(task_text) :
                    /\ calls' = Append(calls, BoardCall(task_text, "ok"))
                    /\ checklist' = Append(checklist, task_text)
                    /\ IF b = NotJson
                       THEN pc' = "l106" /\ UNCHANGED trello_response
                       ELSE pc' = "l102" /\ trello_response' = b
    /\ UNCHANGED <<method, body, chat_id, task_text, item_name, response,
                   nRequests, ghost>>

\* lines 28-45 called from line 101
add_checkitem_to_trello ==
    /\ pc = "l101"
    /\ boardTotal' = boardTotal + 1
    /\ \/ \E o \in {"http_error", "network_error"} :
            /\ calls' = Append(calls, BoardCall(task_text, o))
            /\ pc' = "l106"
            /\ UNCHANGED <<trello_response, checklist>>
       \/ \E b \in TrelloBodies(task_text) :
            /\ calls' = Append(calls, BoardCall(task_text, "ok"))
            /\ checklist' = Append(checklist, task_text)
            /\ IF b = NotJson
               THEN pc' = "l106" /\ UNCHANGED trello_response
               ELSE pc' = "l102" /\ trello_response' = b
    /\ UNCHANGED <<method, body, chat_id, task_text, item_name, response,
                   nRequests, ghost>>

\* line 102
get_item_name ==
    /\ pc = "l102"
    /\ IF trello_response.type # "item"
       THEN pc' = "l106" /\ UNCHANGED item_name
       ELSE /\ pc' = "l103"
            /\ item_name' = IF trello_response.name = Absent
                            THEN Str(task_text) ELSE trello_response.name
    /\ UNCHANGED <<method, body, chat_id, task_text, trello_response, calls,
                   response, checklist, nRequests, ghost, boardTotal>>

\* line 103, inside the try block
SendConfirmation ==
    /\ pc = "l103"
    /\ \E o \in Outcomes :
        /\ calls' = Append(calls, ChatCall(chat_id, AddedTo(PyStr(item_name)), o))
        /\ IF send_raises(o)
           THEN pc' = "l106" /\ UNCHANGED response
           ELSE pc' = "done" /\ response' = OkTrue
    /\ UNCHANGED <<method, body, locals, checklist, nRequests, ghost, boardTotal>>

\* lines 104-111, the except block
SendFailureNotice ==
    /\ pc = "l106"
    /\ \E o \in Outcomes :
        /\ calls' = Append(calls, ChatCall(chat_id, Oops, o))
        /\ response' = IF send_raises(o) THEN ServerError ELSE OkTrue
    /\ pc' = "done"
    /\ UNCHANGED <<method, body, locals, checklist, nRequests, ghost, boardTotal>>

Next ==
    \/ telegram_webhook
    \/ SendPlainTextOnly
    \/ SendGreeting
    \/ add_checkitem_to_trello
    \/ get_item_name
    \/ SendConfirmation
    \/ SendFailureNotice

Spec == Init /\ [][Next]_vars
\* ------------------------------------------------------------ properties
\* Vocabulary of the properties, stated without the handler's own helpers.
IsSpace(c) == c \in {" ", "\n"}
\* s without its leading and trailing whitespace
Trim(s) ==
    LET keep == {i \in 1..Len(s) : ~IsSpace(s[i])}
    IN IF keep = {} THEN <<>>
       ELSE SubSeq(s, CHOOSE i \in keep : \A j \in keep : i <= j,
                      CHOOSE i \in keep : \A j \in keep : j <= i)
BeginsWithStart(s) == \E t \in 0..Len(s) : SubSeq(s, 1, t) = <<"/", "s", "t", "a", "r", "t">>

Answered == pc = "done" /\ method = "POST"
Parsed == body \in Updates \cup {JArray}
BoardCalls == SelectSeq(calls, LAMBDA c : c.svc = "board")
ChatCalls == SelectSeq(calls, LAMBDA c : c.svc = "chat")

\* the message object of the update: "message", else "edited_message"
HasMessage == body \in Updates /\ (body.message \in Messages \/ body.edited_message \in Messages)
TheMessage == IF body.message \in Messages THEN body.message ELSE body.edited_message
HasText == HasMessage /\ TheMessage.text # Absent
TheText == TheMessage.text.chars

\* C1: a POST is answered 400/ok=false exactly when the body is absent or
\* unparseable, and 200/ok=true for every body that parses, whatever the
\* payload and whatever the outcomes of the outbound calls.
C1_StatusByParse ==
    Answered => IF Parsed THEN response = OkTrue ELSE response = NoPayload

\* C2: a message whose text is neither empty nor /start-prefixed causes
\* exactly one board-service call followed by exactly one chat-service call,
\* for every outcome of either call.
C2_OneBoardThenOneChat ==
    (Answered /\ HasText /\ Trim(TheText) # <<>> /\ ~BeginsWithStart(Trim(TheText)))
        => /\ Len(calls) = 2
           /\ calls[1].svc = "board"
           /\ calls[2].svc = "chat"

\* C3: when the board-service call fails there is no second board-service
\* call, the chat gets exactly one message, the failure notice, and the
\* webhook still answers 200/ok=true.
C3_BoardFailureHandled ==
    (Answered /\ \E i \in 1..Len(calls) : calls[i].svc = "board" /\ calls[i].outcome # "ok")
        => /\ Len(BoardCalls) = 1
           /\ Len(ChatCalls) = 1
           /\ ChatCalls[1].text = Oops
           /\ response = OkTrue

\* C4: a failed chat-service send (non-success status or network error)
\* returns normally: it does not change the webhook response and is followed
\* by no further chat-service call in the request.
C4_SendFailureContained ==
    Answered =>
        \A i \in 1..Len(calls) :
            (calls[i].svc = "chat" /\ calls[i].outcome # "ok")
                => /\ response = OkTrue
                   /\ \A j \in (i + 1)..Len(calls) : calls[j].svc # "chat"

\* C5: an update that parses and has neither a message nor an edited_message
\* field, whatever else it holds, causes no outbound call and is answered
\* 200/ok=true.
C5_NonMessageIgnored ==
    (Answered /\ body \in Updates /\ body.message = Absent /\ body.edited_message = Absent)
        => calls = <<>> /\ response = OkTrue

\* C6: a message with no text field causes no board-service call and exactly
\* one chat-service call, the "plain text only" notice; a text that begins
\* with /start once trimmed causes no board-service call and exactly one
\* chat-service call, the greeting.
C6_CannedReplies ==
    (Answered /\ HasMessage) =>
        /\ TheMessage.text = Absent =>
              /\ Len(calls) = 1
              /\ calls[1].svc = "chat"
              /\ calls[1].text = PlainTextOnly
              /\ calls[1].chat_id = TheMessage.chat.id
        /\ (HasText /\ BeginsWithStart(Trim(TheText))) =>
              /\ Len(calls) = 1
              /\ calls[1].svc = "chat"
              /\ calls[1].text = Greeting
              /\ calls[1].chat_id = TheMessage.chat.id

C6_Witness ==
    /\ Answered /\ HasText
    /\ TheText # Trim(TheText)
    /\ BeginsWithStart(Trim(TheText))
    /\ Len(calls) = 1
    /\ calls[1].text = Greeting
    /\ calls[1].outcome = "network_error"

\* C7: when the board-service call succeeds, the single message sent to the
\* chat is "Added to Trello checklist: " followed by the name the board
\* service reported, or by the trimmed text when it reported none; it goes
\* to the chat id of the update, after the board-service call.
ReportedName ==
    IF trello_response.type = "item" /\ trello_response.name.type = "string"
    THEN trello_response.name.chars
    ELSE Trim(TheText)

C7_ConfirmationMessage ==
    (Answered /\ \E i \in 1..Len(calls) : calls[i].svc = "board" /\ calls[i].outcome = "ok")
        => /\ Len(calls) = 2
           /\ calls[1].svc = "board"
           /\ calls[2].svc = "chat"
           /\ calls[2].text = AddedTo(ReportedName)
           /\ calls[2].chat_id = TheMessage.chat.id

\* C8: the handler keeps no state and does not deduplicate: after any
\* sequence of deliveries of task-text updates the number of board-service
\* create calls equals the number of deliveries, each request making its own
\* call with its own text whatever the checklist already holds.
C8_NoDeduplication ==
    (pc = "done" /\ nOther = 0) =>
        /\ boardTotal = nRequests
        /\ Len(BoardCalls) = 1
        /\ BoardCalls[1].text.arg = Trim(TheText)
        /\ Len(checklist) <= boardTotal
        /\ BoardCalls[1].outcome = "ok" =>
              /\ checklist # <<>>
              /\ checklist[Len(checklist)] = Trim(TheText)

C8_Witness ==
    /\ pc = "done" /\ nOther = 0 /\ nRequests = 2
    /\ Len(checklist) = 2
    /\ checklist[1] = checklist[2]
    /\ boardTotal = 2

\* C9: no board-service call carries an empty item text, also when the text
\* of the update consists only of whitespace.
C9_BoardTextNonEmpty ==
    \A i \in 1..Len(calls) : calls[i].svc = "board" => calls[i].text.arg # <<>>

\* C10: the failure notice is never sent in a request whose board-service
\* creation request was accepted, whatever the response body and whatever
\* the outcome of the confirmation send.
C10_NoFailureNoticeAfterCreate ==
    (\E i \in 1..Len(calls) : calls[i].svc = "board" /\ calls[i].outcome = "ok")
        => \A j \in 1..Len(calls) : ~(calls[j].svc = "chat" /\ calls[j].text = Oops)
====
